---- MODULE Spec2Model ----
(***************************************************************************)
(* Model of hdu (src/hdu/hdu.py): the directory walk (walk2), the          *)
(* aggregation (disk_usage), the formatting helpers (progress_bar,         *)
(* _adjust_format, _fix_size, humanize, disk_usage_to_str) and the loop    *)
(* over the targets (hdu).                                                 *)
(*                                                                         *)
(* Strings are sequences of one-character strings, so that slicing,        *)
(* startswith and endswith are computed as Python computes them.           *)
(***************************************************************************)
EXTENDS Integers, Sequences, FiniteSets, TLC

VARIABLES
    fs,          \* the directory tree below the base: path -> [kind, size]
    opts,        \* the options of disk_usage
    stack,       \* walk2: the frames of the nested generators
    items,       \* disk_usage: dict items, in insertion order
    dir_items,   \* disk_usage: dict dir_items, in insertion order
    total_size,  \* disk_usage: total_size
    num_files,   \* disk_usage: num_files
    num_dirs,    \* disk_usage: num_dirs
    pc,          \* position of the running function
    yielded,     \* history: the paths walk2 has yielded
    recorded,    \* history: the yielded paths recorded as their own entry
    foldedInto,  \* history: <<path, key>> for each size added to dir_items[key]
    call,        \* the arguments of the pure function under study
    ret,         \* its return value
    targets,     \* hdu: base_paths, one kind per target
    idx,         \* hdu: number of targets already processed
    out          \* hdu: what has been printed, one record per print() call

vars == <<fs, opts, stack, items, dir_items, total_size, num_files, num_dirs,
          pc, yielded, recorded, foldedInto, call, ret, targets, idx, out>>

duVars == <<fs, opts, stack, items, dir_items, total_size, num_files,
            num_dirs, yielded, recorded, foldedInto>>

hduVars == <<targets, idx, out>>

-----------------------------------------------------------------------------
(* Bounds *)

MaxNodes == 2        \* entries below the base directory

MaxTreeDepth == 2    \* nesting of the entries below the base directory

MaxDepthOpt == 1     \* largest max_depth option tried (-1 .. MaxDepthOpt)

MaxMantissa == 100   \* humanize: sizes are m * scale - e with m up to this

MaxBarSize == 6      \* progress_bar: largest size tried

MaxFactorNum == 12   \* progress_bar: factor is n / 8 with |n| up to this

MaxEntries == 2      \* disk_usage_to_str: entries of contents

MaxEntrySize == 2    \* disk_usage_to_str: sizes of the entries, 1 .. this

MaxTargets == 3      \* hdu: number of base_paths

MaxLinkHops == 1     \* symlinks the kernel follows on one path (ELOOP above)

-----------------------------------------------------------------------------
(* Strings *)

Sep == "/"

Max(a, b) == IF a >= b THEN a ELSE b

Min(a, b) == IF a <= b THEN a ELSE b

\* Python's s[i:j] for 0 <= i, 0 <= j (0-based, j exclusive, clipped).
Slice(s, i, j) ==
    LET hi == Min(j, Len(s))
    IN  IF i >= hi THEN <<>> ELSE SubSeq(s, i + 1, hi)

\* Python's s[i:j] with negative indices counted from the end.
PySlice(s, i, j) ==
    LET fix(k) == IF k < 0 THEN Max(Len(s) + k, 0) ELSE k
    IN  Slice(s, fix(i), fix(j))

StartsWith(s, p) ==
    /\ Len(p) <= Len(s)
    /\ SubSeq(s, 1, Len(p)) = p

EndsWith(s, p) ==
    /\ Len(p) <= Len(s)
    /\ SubSeq(s, Len(s) - Len(p) + 1, Len(s)) = p

\* Python's s.count(c) for a one-character c.
Count(s, c) == Cardinality({i \in 1..Len(s) : s[i] = c})

\* Python's s * n.
RECURSIVE Repeat(_, _)
Repeat(s, n) == IF n <= 0 THEN <<>> ELSE s \o Repeat(s, n - 1)

\* os.path.join(base, name)
PathJoin(base, name) ==
    IF base = <<>> THEN name
    ELSE IF EndsWith(base, <<Sep>>) THEN base \o name
    ELSE base \o <<Sep>> \o name

\* os.path.basename(path)
RECURSIVE Basename(_)
Basename(path) ==
    IF path = <<>> \/ path[Len(path)] = Sep THEN <<>>
    ELSE Basename(SubSeq(path, 1, Len(path) - 1)) \o <<path[Len(path)]>>

-----------------------------------------------------------------------------
(* The file system *)

\* Entry names: "a", "ab" (a name that starts with another name), ".a"
Names == {<<"a">>, <<"a", "b">>, <<".", "a">>}

NameIdx(n) == IF n = <<"a">> THEN 1 ELSE IF n = <<"a", "b">> THEN 2 ELSE 3

\* What os.stat, os.path.islink, os.path.ismount and os.path.isdir report:
\*   file     regular file          dir    directory
\*   link     symlink to a file     mount  directory that is a mount point
\*   special  socket, device, fifo  broken os.stat raises OSError
Kinds == {"file", "dir", "link", "mount", "special", "broken"}

DirKinds == {"dir", "mount"}

\* A node is named by the sequence of the names from the base down to it.
Parent(p) == SubSeq(p, 1, Len(p) - 1)

RECURSIVE ShapesOf(_)
ShapesOf(n) ==
    IF n = 0 THEN {{}}
    ELSE LET prev == ShapesOf(n - 1)
         IN  prev \cup
             {S \cup {Append(p, nm)} :
                 <<S, p, nm>> \in
                    {t \in prev \X (UNION prev \cup {<<>>}) \X Names :
                        /\ t[2] \in t[1] \cup {<<>>}
                        /\ Len(t[2]) < MaxTreeDepth
                        /\ Cardinality(t[1]) = n - 1}}

Shapes == ShapesOf(MaxNodes)

RECURSIVE PathCode(_)
PathCode(p) == IF p = <<>> THEN 0 ELSE NameIdx(p[1]) + 4 * PathCode(Tail(p))

\* Sizes are distinct powers of two, so that a sum of sizes names its terms.
RootSize == 1

NodeSize(S, p) == 2 ^ (1 + Cardinality({q \in S : PathCode(q) < PathCode(p)}))

Trees ==
    UNION {
        {[p \in S |-> [kind |-> k[p], size |-> NodeSize(S, p)]] :
            k \in {f \in [S -> Kinds] :
                      \A p \in S : Len(p) > 1 => f[Parent(p)] \in DirKinds}}
        : S \in Shapes}

Children(tree, d) == {p \in DOMAIN tree : Parent(p) = d}

\* A symlink to a directory: "dirlink" is a symlink to the directory that
\* holds it (ln -s . name).  os.stat and os.path.isdir follow it,
\* os.path.islink reports it.  The trees with such links:
LinkKinds == {"file", "dir", "dirlink"}

LinkTrees ==
    UNION {
        {[p \in S |-> [kind |-> k[p], size |-> NodeSize(S, p)]] :
            k \in {f \in [S -> LinkKinds] :
                      /\ \A p \in S : Len(p) > 1 => f[Parent(p)] \in DirKinds
                      /\ \E p \in S : f[p] = "dirlink"}}
        : S \in Shapes}

\* walk2 names an entry by the names it went through from the base, links
\* included.  The directory of the tree that such a path leads to:
RECURSIVE Resolve(_, _)
Resolve(tree, w) ==
    IF w = <<>> THEN <<>>
    ELSE LET q == Append(Resolve(tree, Parent(w)), w[Len(w)])
         IN  IF tree[q].kind = "dirlink" THEN Parent(q) ELSE q

\* the directory entry of the tree that the path names
EntryOf(tree, w) == Append(Resolve(tree, Parent(w)), w[Len(w)])

\* the number of symlinks that the kernel goes through to resolve the path
RECURSIVE LinkHops(_, _)
LinkHops(tree, w) ==
    IF w = <<>> THEN 0
    ELSE LinkHops(tree, Parent(w)) +
         (IF tree[EntryOf(tree, w)].kind = "dirlink" THEN 1 ELSE 0)

\* what os.stat(path) and the os.path tests see: kind of the entry, size of
\* what the entry leads to
StatOf(tree, w) ==
    LET e == EntryOf(tree, w)
    IN  [kind |-> tree[e].kind,
         size |-> IF tree[e].kind # "dirlink" THEN tree[e].size
                  ELSE IF Parent(e) = <<>> THEN RootSize
                  ELSE tree[Parent(e)].size,
         hops |-> LinkHops(tree, w)]

\* p is a proper ancestor of q
IsAncestor(p, q) == Len(p) < Len(q) /\ SubSeq(q, 1, Len(p)) = p

-----------------------------------------------------------------------------
(* walk2 *)

Base == <<"r">>

RECURSIVE PathStr(_)
\* the path walk2 builds for a node: os.path.join applied top-down
PathStr(p) ==
    IF p = <<>> THEN Base ELSE PathJoin(PathStr(Parent(p)), p[Len(p)])

_is_hidden(filepath) == StartsWith(Basename(filepath), <<".">>)

_is_special(kind) == kind = "special"

IsLink(kind) == kind \in {"link", "broken", "dirlink"}

IsMount(kind) == kind = "mount"

IsDir(kind) == kind \in DirKinds \cup {"dirlink"}

\* os.stat raises OSError: a dangling symlink, or more symlinks on the path
\* than the kernel follows (ELOOP)
StatFails(st) == st.kind = "broken" \/ st.hops > MaxLinkHops

_or_not_and(flag, check) == flag \/ (~flag /\ check)

\* the check not negated
OrNotAndNot_unnegated(flag, check) == flag \/ (~flag /\ check)

_or_not_and_not(flag, check) == flag \/ (~flag /\ ~check)

Allow(o, tree, p) ==
    /\ _or_not_and_not(o.follow_links, IsLink(StatOf(tree, p).kind))
    /\ _or_not_and_not(o.follow_mounts, IsMount(StatOf(tree, p).kind))
    /\ _or_not_and_not(o.allow_special, _is_special(StatOf(tree, p).kind))
    /\ _or_not_and_not(o.allow_hidden, _is_hidden(PathStr(p)))

-----------------------------------------------------------------------------
(* disk_usage *)

\* Python dicts keep insertion order: a dict is a sequence of [k, v].
HasKey(d, key) == \E i \in 1..Len(d) : d[i].k = key

\* d[key] = value
DictSet(d, key, value) ==
    IF HasKey(d, key)
    THEN [i \in 1..Len(d) |->
             IF d[i].k = key THEN [k |-> key, v |-> value] ELSE d[i]]
    ELSE Append(d, [k |-> key, v |-> value])

\* d.update(e)
RECURSIVE DictUpdate(_, _)
DictUpdate(d, e) ==
    IF e = <<>> THEN d
    ELSE DictUpdate(DictSet(d, Head(e).k, Head(e).v), Tail(e))

RECURSIVE SumValues(_)
SumValues(d) == IF d = <<>> THEN 0 ELSE Head(d).v + SumValues(Tail(d))

\* lines 168-169: the base without a trailing separator
StripSep(s) == IF EndsWith(s, <<Sep>>) THEN PySlice(s, 0, 0 - Len(<<Sep>>)) ELSE s

\* line 175 (and 181): the path relative to the base
Subpath(path) ==
    Slice(path, Len(StripSep(Base)) + Len(<<Sep>>), Len(path))

\* line 176
Depth(path) == Count(path, Sep) - Count(StripSep(Base), Sep) - 1

\* the depth test off by one: depth <= max_depth
IsRecorded_le(o, path, is_dir) ==
    LET is_displayed == (~o.only_dir) \/ (o.only_dir /\ is_dir)
    IN  (o.max_depth < 0 \/ Depth(path) <= o.max_depth) /\ is_displayed

\* lines 178-180: is the path recorded as an entry of its own?
IsRecorded(o, path, is_dir) ==
    LET is_displayed == (~o.only_dir) \/ (o.only_dir /\ is_dir)
    IN  (o.max_depth < 0 \/ Depth(path) < o.max_depth) /\ is_displayed

\* lines 187-192: the index of the first key of dir_items that the loop
\* matches against subpath, 0 when there is none
MatchIndex(d, subpath) ==
    LET key_str(key) == StripSep(key)
        hits == {i \in 1..Len(d) : StartsWith(subpath, key_str(d[i].k))}
    IN  IF hits = {} THEN 0
        ELSE CHOOSE i \in hits : \A j \in hits : i <= j

\* dir_items[key] = size in place of dir_items[key] += size
FoldInto_assign(d, subpath, size) ==
    LET m == MatchIndex(d, subpath)
    IN  [i \in 1..Len(d) |->
            IF i = m THEN [k |-> d[i].k, v |-> size] ELSE d[i]]

\* lines 187-194: dir_items after the loop over its keys
FoldInto(d, subpath, size) ==
    LET m == MatchIndex(d, subpath)
    IN  [i \in 1..Len(d) |->
            IF i = m THEN [k |-> d[i].k, v |-> d[i].v + size] ELSE d[i]]

\* line 183 / 185: name -> size
RecordEntry(d, name, size) == DictSet(d, name, size)

\* line 200: items.update({k + os.path.sep: v for k, v in dir_items.items()})
MergeDirs(its, dits) ==
    DictUpdate(its, [i \in 1..Len(dits) |->
                        [k |-> dits[i].k \o <<Sep>>, v |-> dits[i].v]])

Options ==
    [follow_links : BOOLEAN, follow_mounts : BOOLEAN,
     allow_special : BOOLEAN, allow_hidden : BOOLEAN,
     only_dir : BOOLEAN, max_depth : (0 - 1)..MaxDepthOpt]

\* line 110: the paths of the entries that os.listdir(d) has to give
Frame(tree, d) ==
    [dir |-> d,
     todo |-> {Append(d, c[Len(c)]) : c \in Children(tree, Resolve(tree, d))}]

Top == stack[Len(stack)]

Pop(s) == SubSeq(s, 1, Len(s) - 1)

\* the top frame with p taken out of what os.listdir still has to give
Taken(s, p) ==
    [s EXCEPT ![Len(s)] = [@ EXCEPT !.todo = @ \ {p}]]

NoCall == [fn |-> "none"]

\* lines 162-170: the state when the loop over walk2 starts
Init ==
    /\ fs \in Trees
    /\ opts \in Options
    /\ stack = <<Frame(fs, <<>>)>>
    /\ items = <<>>
    /\ dir_items = <<>>
    /\ total_size = RootSize
    /\ num_files = 0
    /\ num_dirs = 1
    /\ pc = "walking"
    /\ yielded = {}
    /\ recorded = {}
    /\ foldedInto = {}
    /\ call = NoCall
    /\ ret = NoCall
    /\ targets = <<>>
    /\ idx = 0
    /\ out = <<>>

\* lines 112, 129-132: os.stat raises; the generator of this directory ends
WalkError(p) ==
    /\ pc = "walking" /\ stack # <<>>
    /\ p \in Top.todo
    /\ StatFails(StatOf(fs, p))
    /\ stack' = Pop(stack)
    /\ UNCHANGED <<fs, opts, items, dir_items, total_size, num_files,
                   num_dirs, pc, yielded, recorded, foldedInto,
                   call, ret, hduVars>>

\* lines 115-120: the entry is not allowed
WalkSkip(p) ==
    /\ pc = "walking" /\ stack # <<>>
    /\ p \in Top.todo
    /\ ~StatFails(StatOf(fs, p))
    /\ ~Allow(opts, fs, p)
    /\ stack' = Taken(stack, p)
    /\ UNCHANGED <<fs, opts, items, dir_items, total_size, num_files,
                   num_dirs, pc, yielded, recorded, foldedInto,
                   call, ret, hduVars>>

\* lines 120-125 and 171-199: walk2 yields the entry, disk_usage adds it
\* up, walk2 goes on into the entry when it is a directory
WalkYield(p) ==
    /\ pc = "walking" /\ stack # <<>>
    /\ p \in Top.todo
    /\ ~StatFails(StatOf(fs, p))
    /\ Allow(opts, fs, p)
    /\ LET path == PathStr(p)
           size == StatOf(fs, p).size
           subpath == Subpath(path)
           is_dir == IsDir(StatOf(fs, p).kind)
           m == MatchIndex(dir_items, subpath)
       IN  /\ IF IsRecorded(opts, path, is_dir)
              THEN /\ IF is_dir
                      THEN /\ dir_items' = RecordEntry(dir_items, subpath, size)
                           /\ items' = items
                      ELSE /\ items' = RecordEntry(items, subpath, size)
                           /\ dir_items' = dir_items
                   /\ recorded' = recorded \cup {p}
                   /\ foldedInto' = foldedInto
              ELSE /\ dir_items' = FoldInto(dir_items, subpath, size)
                   /\ items' = items
                   /\ recorded' = recorded
                   /\ foldedInto' =
                        IF m = 0 THEN foldedInto
                        ELSE foldedInto \cup {<<p, dir_items[m].k>>}
           /\ total_size' = total_size + size
           /\ IF is_dir
              THEN num_dirs' = num_dirs + 1 /\ num_files' = num_files
              ELSE num_files' = num_files + 1 /\ num_dirs' = num_dirs
           /\ yielded' = yielded \cup {p}
           /\ stack' = IF is_dir
                       THEN Append(Taken(stack, p), Frame(fs, p))
                       ELSE Taken(stack, p)
    /\ UNCHANGED <<fs, opts, pc, call, ret, hduVars>>

\* line 110: os.listdir has nothing left; the generator of this directory ends
WalkReturn ==
    /\ pc = "walking" /\ stack # <<>>
    /\ Top.todo = {}
    /\ stack' = Pop(stack)
    /\ UNCHANGED <<fs, opts, items, dir_items, total_size, num_files,
                   num_dirs, pc, yielded, recorded, foldedInto,
                   call, ret, hduVars>>

\* lines 200-201: the loop is over, disk_usage returns
Return ==
    /\ pc = "walking" /\ stack = <<>>
    /\ items' = MergeDirs(items, dir_items)
    /\ pc' = "done"
    /\ UNCHANGED <<fs, opts, stack, dir_items, total_size, num_files,
                   num_dirs, yielded, recorded, foldedInto,
                   call, ret, hduVars>>

\* the entries that the innermost os.listdir still has to give
Listing == IF stack = <<>> THEN {} ELSE Top.todo

Next ==
    \/ \E p \in Listing : WalkError(p)
    \/ \E p \in Listing : WalkSkip(p)
    \/ \E p \in Listing : WalkYield(p)
    \/ WalkReturn
    \/ Return

Spec == Init /\ [][Next]_vars

\* The trees with links have neither mount points nor special files: the
\* two options about these have no effect there and are held fixed.
LinkOptions == {o \in Options : o.follow_mounts /\ o.allow_special}

\* disk_usage on a tree that has symlinks to directories
InitLinks ==
    /\ fs \in LinkTrees
    /\ opts \in LinkOptions
    /\ stack = <<Frame(fs, <<>>)>>
    /\ items = <<>>
    /\ dir_items = <<>>
    /\ total_size = RootSize
    /\ num_files = 0
    /\ num_dirs = 1
    /\ pc = "walking"
    /\ yielded = {}
    /\ recorded = {}
    /\ foldedInto = {}
    /\ call = NoCall
    /\ ret = NoCall
    /\ targets = <<>>
    /\ idx = 0
    /\ out = <<>>

SpecLinks == InitLinks /\ [][Next]_vars

-----------------------------------------------------------------------------
(* Properties of walk2 and disk_usage *)

RECURSIVE SumSizes(_)
\* the sum of the sizes of a set of nodes of fs
SumSizes(S) ==
    IF S = {} THEN 0
    ELSE LET p == CHOOSE q \in S : TRUE
         IN  fs[p].size + SumSizes(S \ {p})

\* the yielded paths whose size went to total_size only
AbsorbedOnly == yielded \ (recorded \cup {pk[1] : pk \in foldedInto})

\* the inclusion predicate, as the specification words it
Passes(p) ==
    /\ opts.follow_links \/ fs[p].kind \notin {"link", "broken"}
    /\ opts.follow_mounts \/ fs[p].kind # "mount"
    /\ opts.allow_special \/ fs[p].kind # "special"
    /\ opts.allow_hidden \/ p[Len(p)][1] # "."

\* C1: when disk_usage has returned, the values of the returned entries plus
\* the sizes of the yielded paths that were neither recorded nor folded into
\* an entry add up to total_size minus the size of the base itself, so
\* total_size is at least the sum of the entries.
C1_Accounting ==
    pc = "done" =>
        /\ SumValues(items) + SumSizes(AbsorbedOnly) = total_size - RootSize
        /\ total_size >= SumValues(items)

C1_Witness ==
    /\ pc = "done"
    /\ items # <<>>
    /\ AbsorbedOnly # {}

\* C2: when the metadata of one entry cannot be read, only that entry is
\* skipped: every other entry of a directory that walk2 lists, that passes
\* the inclusion predicate and whose metadata can be read, is yielded and
\* counted, also when it is listed after the failing one.
C2_OnlyFailingEntrySkipped ==
    pc = "done" =>
        \A p \in DOMAIN fs :
            ( /\ fs[p].kind # "broken"
              /\ Passes(p)
              /\ Len(p) > 1 => Parent(p) \in yielded )
            => p \in yielded

\* C3: a yielded (hence counted) path passes the four tests of the inclusion
\* predicate, and so does every directory above it; nothing else is counted.
C3_OnlyAdmitted ==
    /\ \A p \in yielded :
          /\ Passes(p)
          /\ \A q \in DOMAIN fs : IsAncestor(q, p) => Passes(q)
    /\ num_files + num_dirs = 1 + Cardinality(yielded)
    /\ total_size = RootSize + SumSizes(yielded)

C3_Witness ==
    /\ pc = "done"
    /\ \E d \in DOMAIN fs : \E c \in Children(fs, d) :
          /\ fs[d].kind \in DirKinds
          /\ ~Passes(d)
          /\ Passes(c) /\ fs[c].kind # "broken"
          /\ c \notin yielded

\* C4: with max_depth = 0 disk_usage returns no entry at all, nothing is
\* folded into an entry, and total_size is the size of the base plus the
\* sizes of all the yielded paths.
C4_DepthZero ==
    (pc = "done" /\ opts.max_depth = 0) =>
        /\ items = <<>>
        /\ foldedInto = {}
        /\ total_size = RootSize + SumSizes(yielded)

C4_Witness ==
    /\ pc = "done"
    /\ opts.max_depth = 0
    /\ \E d \in yielded : \E c \in yielded : Parent(c) = d

\* the key under which disk_usage records the node q
KeyOf(q) == Subpath(PathStr(q))

\* the recorded directories that enclose p in the tree
RecordedAncestors(p) ==
    {q \in recorded : IsAncestor(q, p) /\ fs[q].kind \in DirKinds}

\* the nearest of them
NearestRecorded(p) ==
    CHOOSE q \in RecordedAncestors(p) :
        \A r \in RecordedAncestors(p) : Len(r) <= Len(q)

\* the keys of the entries that the size of p was added to
FoldKeys(p) == {pk[2] : pk \in {x \in foldedInto : x[1] = p}}

\* the value of the entry with this key in a dict that has it
ValueOf(d, key) == d[CHOOSE i \in 1..Len(d) : d[i].k = key].v

\* C11: when disk_usage has returned, the size of every yielded path that
\* is not recorded and lies below a recorded directory was added to one
\* entry, the one of its nearest recorded ancestor, and so every directory
\* entry holds the size of the directory plus the sizes of the yielded,
\* non-recorded paths below it that have it as their nearest recorded
\* ancestor (at the cutoff depth: of all its yielded descendants).
C11_FoldedIntoNearestAncestor ==
    pc = "done" =>
        /\ \A p \in yielded \ recorded :
              RecordedAncestors(p) # {} =>
                  FoldKeys(p) = {KeyOf(NearestRecorded(p))}
        /\ \A q \in recorded :
              fs[q].kind \in DirKinds =>
                  /\ HasKey(items, KeyOf(q) \o <<Sep>>)
                  /\ ValueOf(items, KeyOf(q) \o <<Sep>>) =
                        fs[q].size +
                        SumSizes({p \in yielded \ recorded :
                                     /\ RecordedAncestors(p) # {}
                                     /\ NearestRecorded(p) = q})

\* C12: the size of a path is only ever added to the entry of a recorded
\* directory that is a proper ancestor of the path in the tree; a path
\* without a recorded ancestor is added to no entry.
C12_FoldedOnlyIntoAncestors ==
    \A pk \in foldedInto :
        \E q \in RecordedAncestors(pk[1]) : pk[2] = KeyOf(q)

\* The run of disk_usage in which os.listdir gives the entries of every
\* directory in the order of NameIdx, as a function of the tree and the
\* options.  A run is the record of the locals of disk_usage and of the
\* frames of walk2.

\* the entry that os.listdir gives next
FirstListed(todo) ==
    CHOOSE p \in todo : \A q \in todo : PathCode(p) <= PathCode(q)

\* lines 162-170
RunStart(tree) ==
    [stack |-> <<Frame(tree, <<>>)>>, items |-> <<>>, dir_items |-> <<>>,
     total_size |-> RootSize, num_files |-> 0, num_dirs |-> 1]

\* lines 111-127 and 171-199 for the entry p of the top frame
RunEntry(run, tree, o, p) ==
    LET path == PathStr(p)
        size == StatOf(tree, p).size
        subpath == Subpath(path)
        is_dir == IsDir(StatOf(tree, p).kind)
    IN  IF StatFails(StatOf(tree, p))
        THEN [run EXCEPT !.stack = Pop(@)]
        ELSE IF ~Allow(o, tree, p)
        THEN [run EXCEPT !.stack = Taken(@, p)]
        ELSE [stack |-> IF is_dir
                        THEN Append(Taken(run.stack, p), Frame(tree, p))
                        ELSE Taken(run.stack, p),
              items |-> IF IsRecorded(o, path, is_dir) /\ ~is_dir
                        THEN RecordEntry(run.items, subpath, size)
                        ELSE run.items,
              dir_items |-> IF IsRecorded(o, path, is_dir)
                            THEN IF is_dir
                                 THEN RecordEntry(run.dir_items, subpath, size)
                                 ELSE run.dir_items
                            ELSE FoldInto(run.dir_items, subpath, size),
              total_size |-> run.total_size + size,
              num_files |-> IF is_dir THEN run.num_files
                            ELSE run.num_files + 1,
              num_dirs |-> IF is_dir THEN run.num_dirs + 1
                           ELSE run.num_dirs]

\* the entries as a mapping: the set of the pairs of a dict
Mapping(d) == {<<d[i].k, d[i].v>> : i \in 1..Len(d)}

RECURSIVE RunToEnd(_, _, _)
\* lines 171-201: what disk_usage returns from this point of the run on
RunToEnd(run, tree, o) ==
    IF run.stack = <<>>
    THEN <<Mapping(MergeDirs(run.items, run.dir_items)), run.total_size,
           run.num_files, run.num_dirs>>
    ELSE LET top == run.stack[Len(run.stack)]
         IN  IF top.todo = {}
             THEN RunToEnd([run EXCEPT !.stack = Pop(@)], tree, o)
             ELSE RunToEnd(RunEntry(run, tree, o, FirstListed(top.todo)),
                           tree, o)

\* C13: what disk_usage returns (the entries as a mapping, total_size, the
\* number of files, the number of directories) is what the run that lists
\* every directory in name order returns, in whatever order this run listed
\* the directories: any two runs over the same tree with the same options
\* return the same.
C13_SameResultForEveryOrder ==
    pc = "done" =>
        <<Mapping(items), total_size, num_files, num_dirs>> =
            RunToEnd(RunStart(fs), fs, opts)

\* the directory entries of the tree that walk2 has yielded
Visited == {EntryOf(fs, p) : p \in yielded}

RECURSIVE SumStatSizes(_)
\* the sum of the sizes that os.stat gives for a set of directory entries
SumStatSizes(S) ==
    IF S = {} THEN 0
    ELSE LET e == CHOOSE q \in S : TRUE
         IN  StatOf(fs, e).size + SumStatSizes(S \ {e})

\* C14: on a tree with symlinks to directories, whatever the options, no
\* directory entry of the tree is yielded under two paths: total_size is
\* the size of the base plus the size of each visited entry taken once,
\* and num_files + num_dirs counts the base and each visited entry once.
C14_EachEntryOnce ==
    /\ \A p \in yielded : \A q \in yielded :
          EntryOf(fs, p) = EntryOf(fs, q) => p = q
    /\ total_size = RootSize + SumStatSizes(Visited)
    /\ num_files + num_dirs = 1 + Cardinality(Visited)

-----------------------------------------------------------------------------
(* Characters and numbers as text *)

LowerChars == <<"a", "b", "c", "d", "e", "f", "g", "h", "i", "j", "k", "l", "m", "n", "o", "p", "q", "r", "s", "t", "u", "v", "w", "x", "y", "z">>

UpperChars == <<"A", "B", "C", "D", "E", "F", "G", "H", "I", "J", "K", "L", "M", "N", "O", "P", "Q", "R", "S", "T", "U", "V", "W", "X", "Y", "Z">>

DigitChars == <<"0", "1", "2", "3", "4", "5", "6", "7", "8", "9">>

\* s.index(c), 0-based; -1 when c is not in s
IndexOf(s, c) ==
    IF \E i \in 1..Len(s) : s[i] = c
    THEN (CHOOSE i \in 1..Len(s) : s[i] = c /\ \A j \in 1..(i - 1) : s[j] # c) - 1
    ELSE 0 - 1

UpperChar(c) ==
    IF IndexOf(LowerChars, c) >= 0 THEN UpperChars[IndexOf(LowerChars, c) + 1] ELSE c

LowerChar(c) ==
    IF IndexOf(UpperChars, c) >= 0 THEN LowerChars[IndexOf(UpperChars, c) + 1] ELSE c

\* s.upper(), s.lower()
Upper(s) == [i \in 1..Len(s) |-> UpperChar(s[i])]

Lower(s) == [i \in 1..Len(s) |-> LowerChar(s[i])]

\* s in t, for strings
IsSubstring(s, t) ==
    \E i \in 0..(Len(t) - Len(s)) : SubSeq(t, i + 1, i + Len(s)) = s

RECURSIVE IntStr(_)
\* str(n) for n >= 0
IntStr(n) ==
    IF n < 10 THEN <<DigitChars[n + 1]>>
    ELSE IntStr(n \div 10) \o <<DigitChars[(n % 10) + 1]>>

\* s.rjust(width), s.zfill(width)
PadLeft(s, width, c) == Repeat(<<c>>, width - Len(s)) \o s

\* round(num / den) to the nearest integer, ties to the even one (Python 3),
\* for den > 0
RoundHalfEven(num, den) ==
    LET fl == num \div den
        twice == 2 * (num % den)
    IN  IF twice > den \/ (twice = den /\ fl % 2 = 1) THEN fl + 1 ELSE fl

\* int(num / den): truncation toward zero, for den > 0
Trunc(num, den) == IF num >= 0 THEN num \div den ELSE 0 - ((0 - num) \div den)

-----------------------------------------------------------------------------
(* _adjust_format, _fix_size, _to_units, humanize *)

UNITS_PREFIX == <<"k", "M", "G", "T", "P", "E", "Z", "Y">>

MAX_CHAR_SIZE == 4

\* '{:3.{precision}f}'.format(num / den) for num >= 0, den > 0
FormatFixed(num, den, precision) ==
    LET scaled == RoundHalfEven(num * 10 ^ precision, den)
        whole == IntStr(scaled \div 10 ^ precision)
        frac == PadLeft(IntStr(scaled % 10 ^ precision), precision, "0")
    IN  PadLeft(IF precision > 0 THEN whole \o <<".">> \o frac ELSE whole,
                3, " ")

\* lines 238-242: the number of decimal digits
Precision(num, den, order, num_chars) ==
    LET len_integral_part == Len(IntStr(Trunc(num, den)))
    IN  IF len_integral_part + 1 > num_chars \/ order = 0
        THEN 0
        ELSE num_chars - len_integral_part - 1

_adjust_format(num, den, order, num_chars) ==
    FormatFixed(num, den, Precision(num, den, order, num_chars))

RECURSIVE FloorLog(_, _)
\* the largest k with b^k <= n, for n >= 1
FloorLog(n, b) == IF n < b THEN 0 ELSE 1 + FloorLog(n \div b, b)

RECURSIVE IsPowerOf(_, _)
IsPowerOf(n, b) ==
    IF n = 1 THEN TRUE
    ELSE IF n % b # 0 THEN FALSE ELSE IsPowerOf(n \div b, b)

\* line 248: int(round(math.log(size, base) // exp)) if size > 0 else 0.
\* math.log(size, 10) is the quotient of two doubles, and for size = 1000^k
\* it is just below 3k (math.log(1000, 10) = 2.9999999999999996), so the
\* floor division gives k - 1; math.log(size, 2) is exact on the powers of 2.
FixOrder(size, base, exp) ==
    IF size > 0
    THEN LET k == FloorLog(size, base ^ exp)
         IN  IF base = 10 /\ k > 0 /\ IsPowerOf(size, base ^ exp)
             THEN k - 1 ELSE k
    ELSE 0

\* lines 247-250: new_size as the fraction num / den, and the order
_fix_size(size, base, exp) ==
    LET order == FixOrder(size, base, exp)
    IN  [num |-> size, den |-> (base ^ exp) ^ order, order |-> order]

\* prefix_str[o - 1] also for o = 0, where Python indexes from the end
ToUnits_noByte(o, units_prefix) ==
    IF o > 0 THEN <<units_prefix[o]>> ELSE <<units_prefix[Len(units_prefix)]>>

\* lines 254-256
_to_units(o, units_prefix) ==
    IF o > 0 THEN <<units_prefix[o]>> ELSE <<"B">>

\* line 283: re.match('[kMGTPEZY]B', units)
MatchPrefixB(units) ==
    /\ Len(units) >= 2
    /\ IndexOf(UNITS_PREFIX, units[1]) >= 0
    /\ units[2] = "B"

\* line 284: re.match('[KMGTPEZY](iB)?', units)
MatchUpperPrefix(units) ==
    /\ Len(units) >= 1
    /\ IndexOf(Upper(UNITS_PREFIX), units[1]) >= 0

\* lines 280-308; order is the local variable, 0 where no unit is applied
humanize(size, units) ==
    IF MatchPrefixB(units) \/ MatchUpperPrefix(units)
    THEN LET order == IndexOf(Upper(UNITS_PREFIX), UpperChar(units[1])) + 1
             iec_units ==
                \/ Len(units) = 1
                \/ (3 >= Len(units) /\ Len(units) > 1 /\ units[2] = "i")
             base == IF iec_units THEN 2 ELSE 10
             exp == IF iec_units THEN 10 ELSE 3
         IN  [size_str |-> _adjust_format(size, (base ^ exp) ^ order, order,
                                          MAX_CHAR_SIZE),
              units_str |-> units,
              order |-> order]
    ELSE IF IsSubstring(Lower(units), <<"u", "n", "i", "x">>)
    THEN LET f == _fix_size(size, 2, 10)
         IN  [size_str |-> _adjust_format(f.num, f.den, f.order, MAX_CHAR_SIZE),
              units_str |-> Upper(_to_units(f.order, UNITS_PREFIX)),
              order |-> f.order]
    ELSE IF Lower(units) = <<"i", "e", "c">>
    THEN LET f == _fix_size(size, 2, 10)
         IN  [size_str |-> _adjust_format(f.num, f.den, f.order, MAX_CHAR_SIZE),
              units_str |-> Upper(_to_units(f.order, UNITS_PREFIX))
                            \o (IF f.order > 0 THEN <<"i", "B">> ELSE <<>>),
              order |-> f.order]
    ELSE IF Lower(units) = <<"s", "i">>
    THEN LET f == _fix_size(size, 10, 3)
         IN  [size_str |-> _adjust_format(f.num, f.den, f.order, MAX_CHAR_SIZE),
              units_str |-> _to_units(f.order, UNITS_PREFIX)
                            \o (IF f.order > 0 THEN <<"B">> ELSE <<>>),
              order |-> f.order]
    ELSE [size_str |-> IntStr(size), units_str |-> <<"B">>, order |-> 0]

-----------------------------------------------------------------------------
(* humanize applied to sizes and units *)

\* the implicit units in several spellings, explicit tokens of order 1 and
\* 2, and strings that are neither
UnitTokens ==
    {<<"i", "e", "c">>,
     <<"s", "i">>,
     <<"u", "n", "i", "x">>,
     <<"S", "i">>,
     <<"K", "i", "B">>,
     <<"M", "i", "B">>,
     <<"k", "B">>,
     <<"M", "B">>,
     <<"K">>,
     <<"M">>,
     <<"k">>,
     <<"B">>,
     <<"z", "z">>,
     <<>>}

Scales == {1, 1000, 1024, 1000000, 1048576}

HumanSizes ==
    {n \in {m * sc - e : m \in 0..MaxMantissa, sc \in Scales, e \in {0, 1}} :
        n >= 0}

RECURSIVE Gcd(_, _)
Gcd(a, b) == IF b = 0 THEN a ELSE Gcd(b, a % b)

\* Is num / den a decimal tie at the printed precision that no double holds
\* exactly?  '{:f}' then rounds the double next to it, up or down as the
\* binary expansion falls.  These calls are left out of the inputs.
InexactTie(num, den, order) ==
    LET p == Precision(num, den, order, MAX_CHAR_SIZE)
    IN  /\ 2 * ((num * 10 ^ p) % den) = den
        /\ ~IsPowerOf(den \div Gcd(num, den), 2)

\* the divisor humanize applies for these arguments
Divisor(size, units) ==
    LET h == humanize(size, units)
        binary ==
            IF MatchPrefixB(units) \/ MatchUpperPrefix(units)
            THEN \/ Len(units) = 1
                 \/ (Len(units) >= 2 /\ Len(units) <= 3 /\ units[2] = "i")
            ELSE Lower(units) # <<"s", "i">>
    IN  IF h.order = 0 THEN 1
        ELSE IF binary THEN 1024 ^ h.order ELSE 1000 ^ h.order

HumanVarsIdle ==
    /\ fs = <<>>
    /\ opts = [follow_links |-> FALSE, follow_mounts |-> FALSE,
               allow_special |-> FALSE, allow_hidden |-> FALSE,
               only_dir |-> FALSE, max_depth |-> 0]
    /\ stack = <<>>
    /\ items = <<>>
    /\ dir_items = <<>>
    /\ total_size = 0
    /\ num_files = 0
    /\ num_dirs = 0
    /\ yielded = {}
    /\ recorded = {}
    /\ foldedInto = {}

InitHumanize ==
    /\ HumanVarsIdle
    /\ pc = "call"
    /\ call \in {c \in [fn : {"humanize"}, size : HumanSizes, units : UnitTokens] :
                    ~InexactTie(c.size, Divisor(c.size, c.units),
                                humanize(c.size, c.units).order)}
    /\ ret = NoCall
    /\ targets = <<>>
    /\ idx = 0
    /\ out = <<>>

\* lines 260-308: humanize(size, units) returns
Humanize ==
    /\ pc = "call"
    /\ call.fn = "humanize"
    /\ ret' = humanize(call.size, call.units)
    /\ pc' = "done"
    /\ UNCHANGED <<duVars, call, hduVars>>

NextHumanize == Humanize

SpecHumanize == InitHumanize /\ [][NextHumanize]_vars

\* an explicit unit token: a prefix letter followed by B, or an upper-case
\* prefix letter followed by anything
ExplicitToken(units) ==
    /\ units # <<>>
    /\ \/ units[1] \in {"K", "M", "G", "T", "P", "E", "Z", "Y"}
       \/ (units[1] \in {"k"} /\ Len(units) >= 2 /\ units[2] = "B")

\* the number of decimal digits of a printed number
Decimals(str) ==
    IF \E i \in 1..Len(str) : str[i] = "."
    THEN Len(str) - (CHOOSE i \in 1..Len(str) : str[i] = ".")
    ELSE 0

\* C7 as claimed: humanize(0, units) has order 0 and unit "B" for every
\* units argument.
C7_ZeroIsBytes ==
    (pc = "done" /\ call.fn = "humanize" /\ call.size = 0) =>
        /\ ret.order = 0
        /\ ret.units_str = <<"B">>

\* C7 as amended: humanize(0, units) has order 0 and unit "B" for iec, si,
\* unix and every string that is not an explicit unit token; for an explicit
\* token the order is the 1-based index of its prefix letter and the unit
\* string is the token itself.
C7_ZeroIsBytesUnlessExplicit ==
    (pc = "done" /\ call.fn = "humanize" /\ call.size = 0) =>
        IF ExplicitToken(call.units)
        THEN /\ ret.units_str = call.units
             /\ ret.order = IF call.units[1] \in {"k", "K"} THEN 1 ELSE 2
        ELSE /\ ret.order = 0
             /\ ret.units_str = <<"B">>

C7_Witness ==
    /\ pc = "done" /\ call.fn = "humanize" /\ call.size = 0
    /\ ExplicitToken(call.units)
    /\ ret.order = 2

\* C8: for every size and each of the unit modes iec, si, unix and explicit
\* token, the number humanize prints has at most MAX_CHAR_SIZE characters,
\* with no decimal digit when its integral part has 3 digits or more or the
\* order is 0, and 4 - integral_digits - 1 decimal digits otherwise.
C8_AtMostFourChars ==
    (pc = "done" /\ call.fn = "humanize"
        /\ (ExplicitToken(call.units)
            \/ Lower(call.units) \in {<<"i", "e", "c">>, <<"s", "i">>,
                                      <<"u", "n", "i", "x">>})) =>
        LET den == Divisor(call.size, call.units)
            digits == Len(IntStr(call.size \div den))
        IN  /\ Len(ret.size_str) <= 4
            /\ Decimals(ret.size_str) =
                   IF digits >= 3 \/ ret.order = 0 THEN 0 ELSE 4 - digits - 1

-----------------------------------------------------------------------------
(* progress_bar *)

D_FILL == <<"=">>

D_EMPTY == <<" ">>

D_PRE == <<"[">>

D_POST == <<"]">>

\* the factor left as it is
Clamp_none(num, den) == [num |-> num, den |-> den]

\* lines 226-227: if factor > 1.0: factor = 1.0 (factor is num / den, den > 0)
Clamp(num, den) ==
    IF num > den THEN [num |-> 1, den |-> 1] ELSE [num |-> num, den |-> den]

\* line 228: int(round(factor * size))
FillSize(num, den, size) ==
    LET f == Clamp(num, den) IN RoundHalfEven(f.num * size, f.den)

\* lines 226-233
progress_bar(num, den, size, fill, empty, pre, post) ==
    LET fill_size == FillSize(num, den, size)
        text == PySlice(Repeat(fill, size \div Len(fill) + 1), 0, fill_size)
                \o PySlice(Repeat(empty, size \div Len(empty) + 1),
                           fill_size, size)
    IN  (IF pre # <<>> THEN pre ELSE <<>>) \o text
        \o (IF post # <<>> THEN post ELSE <<>>)

\* factors that a double holds exactly: n / 8, from -1.5 to 1.5
Factors == {[num |-> n, den |-> 8] : n \in (0 - MaxFactorNum)..MaxFactorNum}

InitBar ==
    /\ HumanVarsIdle
    /\ pc = "call"
    /\ call \in {[fn |-> "progress_bar", num |-> f.num, den |-> f.den,
                  size |-> sz] : f \in Factors, sz \in 0..MaxBarSize}
    /\ ret = NoCall
    /\ targets = <<>>
    /\ idx = 0
    /\ out = <<>>

\* lines 205-233: progress_bar(factor, size) returns
ProgressBar ==
    /\ pc = "call"
    /\ call.fn = "progress_bar"
    /\ ret' = [text |-> progress_bar(call.num, call.den, call.size,
                                     D_FILL, D_EMPTY, D_PRE, D_POST)]
    /\ pc' = "done"
    /\ UNCHANGED <<duVars, call, hduVars>>

NextBar == ProgressBar

SpecBar == InitBar /\ [][NextBar]_vars

\* the returned text without its first and its last character
Interior(text) == SubSeq(text, 2, Len(text) - 1)

\* k fill glyphs followed by empty glyphs, n characters in all
BarOf(k, n) == [i \in 1..n |-> IF i <= k THEN "=" ELSE " "]

\* round(min(factor, 1.0) * size) for the call
RoundedFill ==
    IF call.num > call.den THEN call.size
    ELSE RoundHalfEven(call.num * call.size, call.den)

\* C9 as claimed: for every factor and size the text is pre + interior +
\* post, the interior being max(0, round(min(factor, 1.0) * size)) fill
\* glyphs followed by empty glyphs, size characters in all.
C9_BarAsClaimed ==
    (pc = "done" /\ call.fn = "progress_bar") =>
        /\ ret.text[1] = "[" /\ ret.text[Len(ret.text)] = "]"
        /\ Interior(ret.text) = BarOf(Max(0, RoundedFill), call.size)

\* C9 as amended: the interior always has size characters, fill glyphs
\* followed by empty glyphs; their number is round(min(factor, 1.0) * size)
\* when that is not negative, and max(0, size + 1 + round(factor * size))
\* when it is negative (Python counts a negative slice bound from the end).
C9_BarNegativeSlices ==
    (pc = "done" /\ call.fn = "progress_bar") =>
        /\ ret.text[1] = "[" /\ ret.text[Len(ret.text)] = "]"
        /\ Interior(ret.text) =
              BarOf(IF RoundedFill >= 0 THEN RoundedFill
                    ELSE Max(0, call.size + 1 + RoundedFill),
                    call.size)

C9_Witness ==
    /\ pc = "done" /\ call.fn = "progress_bar"
    /\ call.num < 0
    /\ RoundedFill < 0
    /\ Interior(ret.text)[1] = "="

-----------------------------------------------------------------------------
(* disk_usage_to_str *)

D_VERB_LVL == 1

\* the characters in the order of their code points
CodePoints ==
    <<" ", ".", "/">> \o DigitChars \o UpperChars \o <<"_">> \o LowerChars

RECURSIVE StrLess(_, _)
\* a < b for strings
StrLess(a, b) ==
    IF b = <<>> THEN FALSE
    ELSE IF a = <<>> THEN TRUE
    ELSE IF Head(a) # Head(b)
         THEN IndexOf(CodePoints, Head(a)) < IndexOf(CodePoints, Head(b))
         ELSE StrLess(Tail(a), Tail(b))

\* key(x) < key(y), key being x[index] of the item (name, size)
KeyLess(x, y, index) ==
    IF index = 0 THEN StrLess(x.k, y.k) ELSE x.v < y.v

\* does x go before y in the sorted list?
Before(x, y, index, reverse) ==
    IF reverse THEN KeyLess(y, x, index) ELSE KeyLess(x, y, index)

\* x put into a sorted list, behind the elements it does not go before
Insert(x, sorted, index, reverse) ==
    LET ahead == {i \in 1..Len(sorted) : Before(x, sorted[i], index, reverse)}
        at == IF ahead = {} THEN Len(sorted) + 1
              ELSE CHOOSE i \in ahead : \A j \in ahead : i <= j
    IN  SubSeq(sorted, 1, at - 1) \o <<x>> \o SubSeq(sorted, at, Len(sorted))

RECURSIVE SortFrom(_, _, _, _)
SortFrom(sorted, rest, index, reverse) ==
    IF rest = <<>> THEN sorted
    ELSE SortFrom(Insert(Head(rest), sorted, index, reverse), Tail(rest),
                  index, reverse)

\* sorted(list, key=lambda x: x[index], reverse=reverse): a stable sort
Sorted(list, index, reverse) == SortFrom(<<>>, list, index, reverse)

\* line 358: reverse = sort_by.endswith('_r')
SortReverse(sort_by) == EndsWith(sort_by, <<"_", "r">>)

\* lines 350-357: the index of the sort key, and whether a warning is given
SortIndex(sort_by) ==
    IF StartsWith(sort_by, <<"n", "a", "m", "e">>)
    THEN [index |-> 0, warned |-> FALSE]
    ELSE IF StartsWith(sort_by, <<"s", "i", "z", "e">>)
    THEN [index |-> 1, warned |-> FALSE]
    ELSE [index |-> 0, warned |-> TRUE]

\* lines 345-379, with bar_size = 0 (no bar); a line is kept as its fields,
\* the percentage left out
disk_usage_to_str(contents, total, nfiles, ndirs, sort_by, units, verbose) ==
    LET tot == humanize(total, units)
        shown == verbose >= D_VERB_LVL
        sorted_items ==
            Sorted(contents, SortIndex(sort_by).index, SortReverse(sort_by))
        entry(it) ==
            [line |-> "entry", name |-> it.k,
             size_str |-> humanize(it.v, units).size_str,
             units_str |-> humanize(it.v, units).units_str]
    IN  [lines |->
            (IF shown
             THEN [i \in 1..Len(sorted_items) |-> entry(sorted_items[i])]
             ELSE <<>>)
            \o <<[line |-> "realpath"],
                 [line |-> "total", size_str |-> tot.size_str,
                  units_str |-> tot.units_str, bytes |-> total,
                  num_files |-> nfiles, num_dirs |-> ndirs]>>,
         warned |-> shown /\ SortIndex(sort_by).warned]

-----------------------------------------------------------------------------
(* disk_usage_to_str applied to contents and sort keys *)

\* VERB_LVL.values()
Verbosities == {0, 1, 2, 3, 5}

EntryNames == {<<"a">>, <<"b">>, <<"a", "b", "/">>}

\* the four documented keys, two values the code takes for name and size by
\* their first letters, and two values it does not know
SortKeys ==
    {<<"n", "a", "m", "e">>,
     <<"n", "a", "m", "e", "_", "r">>,
     <<"s", "i", "z", "e">>,
     <<"s", "i", "z", "e", "_", "r">>,
     <<"d", "a", "t", "e">>,
     <<"d", "a", "t", "e", "_", "r">>,
     <<"n", "a", "m", "e", "s">>,
     <<"s", "i", "z", "e", "s">>}

\* dicts of up to MaxEntries entries, in every insertion order
Contents ==
    UNION {{d \in [1..n -> [k : EntryNames, v : 1..MaxEntrySize]] :
               \A i \in 1..n : \A j \in 1..n : d[i].k = d[j].k => i = j}
           : n \in 0..MaxEntries}

InitSort ==
    /\ HumanVarsIdle
    /\ pc = "call"
    /\ call \in [fn : {"disk_usage_to_str"}, contents : Contents,
                 sort_by : SortKeys, verbose : {0, 1}]
    /\ ret = NoCall
    /\ targets = <<>>
    /\ idx = 0
    /\ out = <<>>

\* lines 312-379: disk_usage_to_str returns
DiskUsageToStr ==
    /\ pc = "call"
    /\ call.fn = "disk_usage_to_str"
    /\ ret' = disk_usage_to_str(call.contents, SumValues(call.contents) + 1,
                                Len(call.contents), 1, call.sort_by,
                                <<"u", "n", "i", "x">>, call.verbose)
    /\ pc' = "done"
    /\ UNCHANGED <<duVars, call, hduVars>>

NextSort == DiskUsageToStr

SpecSort == InitSort /\ [][NextSort]_vars

\* the names of the per-entry lines, in the order of the report
EntryOrder(lines) ==
    LET es == SelectSeq(lines, LAMBDA l : l.line = "entry")
    IN  [i \in 1..Len(es) |-> es[i].name]

\* a value the code takes neither for name nor for size
Unrecognised(sort_by) ==
    /\ ~StartsWith(sort_by, <<"n", "a", "m", "e">>)
    /\ ~StartsWith(sort_by, <<"s", "i", "z", "e">>)

\* C10: for every sort_by that is not one of the recognised keys,
\* disk_usage_to_str warns and puts the per-entry lines in the order of
\* sort_by = 'name', ascending by name; the report is still produced.
\* (Stated for the calls that print per-entry lines, verbose >= D_VERB_LVL.)
C10_UnknownKeySortsByName ==
    (pc = "done" /\ call.fn = "disk_usage_to_str"
        /\ call.verbose >= D_VERB_LVL
        /\ Unrecognised(call.sort_by)) =>
        /\ ret.warned
        /\ EntryOrder(ret.lines) =
              EntryOrder(disk_usage_to_str(
                  call.contents, SumValues(call.contents) + 1,
                  Len(call.contents), 1, <<"n", "a", "m", "e">>,
                  <<"u", "n", "i", "x">>, call.verbose).lines)
        /\ LET order == EntryOrder(ret.lines)
           IN  \A i \in 1..(Len(order) - 1) : StrLess(order[i], order[i + 1])
        /\ ret.lines[Len(ret.lines)].line = "total"

-----------------------------------------------------------------------------
(* hdu *)

\* what os.path.isdir and os.path.isfile say of a target
TargetKinds == {"dir", "file", "missing"}

\* VERB_LVL['low']
VERB_LVL_low == 1

\* the warning printed only above VERB_LVL['low']
Emit_quiet(kind, i, verbose) ==
    IF kind = "dir"
    THEN (IF i > 0 THEN <<[line |-> "blank"]>> ELSE <<>>)
         \o <<[line |-> "report", target |-> i]>>
    ELSE IF kind = "file"
    THEN <<[line |-> "report", target |-> i]>>
    ELSE IF verbose > VERB_LVL_low
    THEN <<[line |-> "warning", target |-> i]>>
    ELSE <<>>

\* lines 429-450: what one pass of the loop prints for target number i
\* (counted from 0), one record per print() call; a report is kept as one
\* record, the text disk_usage_to_str returns having no empty line
Emit(kind, i, verbose) ==
    IF kind = "dir"
    THEN (IF i > 0 THEN <<[line |-> "blank"]>> ELSE <<>>)
         \o <<[line |-> "report", target |-> i]>>
    ELSE IF kind = "file"
    THEN <<[line |-> "report", target |-> i]>>
    ELSE IF verbose >= VERB_LVL_low
    THEN <<[line |-> "warning", target |-> i]>>
    ELSE <<>>

InitHdu ==
    /\ HumanVarsIdle
    /\ pc = "loop"
    /\ call \in [fn : {"hdu"}, verbose : Verbosities]
    /\ ret = NoCall
    /\ targets \in UNION {[1..n -> TargetKinds] : n \in 0..MaxTargets}
    /\ idx = 0
    /\ out = <<>>

\* lines 420-450: one pass of the loop over base_paths
HduStep ==
    /\ pc = "loop"
    /\ idx < Len(targets)
    /\ out' = out \o Emit(targets[idx + 1], idx, call.verbose)
    /\ idx' = idx + 1
    /\ UNCHANGED <<duVars, pc, call, ret, targets>>

\* the loop is over, hdu returns
HduReturn ==
    /\ pc = "loop"
    /\ idx = Len(targets)
    /\ pc' = "done"
    /\ UNCHANGED <<duVars, call, ret, hduVars>>

NextHdu == HduStep \/ HduReturn

SpecHdu == InitHdu /\ [][NextHdu]_vars

\* the positions of the reports in what was printed
ReportAt == {i \in 1..Len(out) : out[i].line = "report"}

BlanksIn(lo, hi) ==
    Cardinality({i \in lo..hi : out[i].line = "blank"})

\* C5: when hdu has returned there is one report per valid target, in the
\* order of the targets; exactly one blank line lies between two consecutive
\* reports, none before the first report and none after the last.
C5_BlankLineBetweenReports ==
    (pc = "done" /\ call.fn = "hdu") =>
        /\ [i \in 1..Cardinality(ReportAt) |->
               SelectSeq(out, LAMBDA l : l.line = "report")[i].target + 1]
           = SelectSeq([i \in 1..Len(targets) |-> i],
                       LAMBDA i : targets[i] # "missing")
        /\ \A i \in ReportAt : \A j \in ReportAt :
              (i < j /\ \A m \in ReportAt : ~(i < m /\ m < j))
              => BlanksIn(i, j) = 1
        /\ \A i \in ReportAt :
              (\A m \in ReportAt : i <= m) => BlanksIn(1, i) = 0
        /\ \A i \in ReportAt :
              (\A m \in ReportAt : m <= i) => BlanksIn(i, Len(out)) = 0

\* the records printed for target number i (counted from 0)
LinesOf(i, what) ==
    Cardinality({m \in 1..Len(out) : out[m] = [line |-> what, target |-> i]})

\* C6 as claimed: a target that is neither a directory nor a file gives one
\* warning line and no report; every valid target, also after it, gives its
\* report, and hdu returns after the last target.
C6_MissingTargetWarns ==
    (pc = "done" /\ call.fn = "hdu") =>
        /\ idx = Len(targets)
        /\ \A t \in 1..Len(targets) :
              IF targets[t] = "missing"
              THEN LinesOf(t - 1, "warning") = 1 /\ LinesOf(t - 1, "report") = 0
              ELSE LinesOf(t - 1, "warning") = 0 /\ LinesOf(t - 1, "report") = 1

\* C6 as amended: the warning line is printed when verbose >= 1
\* (VERB_LVL['low'], the least verbosity of the command line) and left out
\* when verbose is 0; the rest as claimed.
C6_MissingTargetWarnsIfVerbose ==
    (pc = "done" /\ call.fn = "hdu") =>
        /\ idx = Len(targets)
        /\ \A t \in 1..Len(targets) :
              IF targets[t] = "missing"
              THEN /\ LinesOf(t - 1, "warning") =
                         IF call.verbose >= 1 THEN 1 ELSE 0
                   /\ LinesOf(t - 1, "report") = 0
              ELSE LinesOf(t - 1, "warning") = 0 /\ LinesOf(t - 1, "report") = 1

C6_Witness ==
    /\ pc = "done" /\ call.fn = "hdu"
    /\ call.verbose >= 1
    /\ \E t \in 1..Len(targets) : \E u \in 1..Len(targets) :
          /\ t < u
          /\ targets[t] = "missing" /\ targets[u] # "missing"
          /\ LinesOf(t - 1, "warning") = 1
          /\ LinesOf(u - 1, "report") = 1

====
